---- MODULE Spec2Model ----
(***************************************************************************)
(* Model of the C2PA text manifest wrapper (rust/src/lib.rs) and of its    *)
(* structural validator (rust/src/validator.rs).                           *)
(*                                                                         *)
(* A text is a sequence of Unicode scalar values (naturals); a byte buffer *)
(* is a sequence of naturals in 0..255.  Byte offsets into a text are      *)
(* computed from the UTF-8 width of every scalar value, as char_indices    *)
(* does.  usize is taken to be 64 bits wide.                               *)
(***************************************************************************)
EXTENDS Integers, Sequences, FiniteSets, TLC

VARIABLES
    bpc, origin, curCp, curByte,                      \* byte <-> codepoint pipeline
    cpc, text, host, payload, embeds, res, res2,      \* embed / extract pipeline
    vpc, buf, call, vres, added,                      \* validator
    spc, si, sws, swe, sdec, seen, sres               \* extract_manifest, step by step

bvars == <<bpc, origin, curCp, curByte>>
cvars == <<cpc, text, host, payload, embeds, res, res2>>
vvars == <<vpc, buf, call, vres, added>>
svars == <<spc, si, sws, swe, sdec, seen, sres>>
vars == <<bpc, origin, curCp, curByte, cpc, text, host, payload, embeds, res, res2,
          vpc, buf, call, vres, added, spc, si, sws, swe, sdec, seen, sres>>

(***************************************************************************)
(* Option values.                                                          *)
(***************************************************************************)
Some(x) == [some |-> TRUE, val |-> x]
NoneNat == [some |-> FALSE, val |-> 0]
NoneBytes == [some |-> FALSE, val |-> <<>>]

(***************************************************************************)
(* Constants of lib.rs.                                                    *)
(***************************************************************************)
MAGIC == <<67, 50, 80, 65, 84, 88, 84, 0>>    \* b"C2PATXT\0"
VERSION == 1
HEADER_SIZE == 13
ZWNBSP == 65279                               \* U+FEFF
VS_START == 65024                             \* U+FE00
VS_END == 65039                               \* U+FE0F
VS_SUP_START == 917760                        \* U+E0100
VS_SUP_END == 917999                          \* U+E01EF

(***************************************************************************)
(* byte_to_vs / vs_to_byte.                                                *)
(***************************************************************************)
byte_to_vs_off_by_one(byte) ==
    IF byte <= 16 THEN VS_START + byte ELSE VS_SUP_START + byte - 16

byte_to_vs(byte) ==
    IF byte <= 15 THEN VS_START + byte ELSE VS_SUP_START + byte - 16

vs_to_byte(code) ==
    IF code >= VS_START /\ code <= VS_END
    THEN Some(code - VS_START)
    ELSE IF code >= VS_SUP_START /\ code <= VS_SUP_END
         THEN Some((code - VS_SUP_START) + 16)
         ELSE NoneNat

(***************************************************************************)
(* Inputs of the byte <-> codepoint pipeline: every byte, and the scalar   *)
(* values within Margin of either variation-selector range, the marker     *)
(* and a few values far from both ranges.                                  *)
(***************************************************************************)
Margin == 16
Bytes == 0..255
CodepointSamples ==
    (VS_START - Margin)..(VS_END + Margin)
        \cup (VS_SUP_START - Margin)..(VS_SUP_END + Margin)
        \cup {0, 101, 769, ZWNBSP, 1114111}
InVsRange(c) ==
    (c >= VS_START /\ c <= VS_END) \/ (c >= VS_SUP_START /\ c <= VS_SUP_END)

(***************************************************************************)
(* Texts.  char::len_utf8 gives the width of a scalar value; ByteOffset is *)
(* the offset char_indices reports for the k-th scalar value (1-based), or *)
(* text.len() for k = Len(t) + 1.                                          *)
(***************************************************************************)
Utf8Len(c) ==
    IF c < 128 THEN 1 ELSE IF c < 2048 THEN 2 ELSE IF c < 65536 THEN 3 ELSE 4

\* text.len(): the sum of the widths, one byte for each scalar value and
\* one more for each width threshold it reaches
ByteLen(t) ==
    Len(t) + Cardinality({k \in 1..Len(t) : t[k] >= 128})
           + Cardinality({k \in 1..Len(t) : t[k] >= 2048})
           + Cardinality({k \in 1..Len(t) : t[k] >= 65536})

ByteOffset(t, k) == ByteLen(SubSeq(t, 1, k - 1))

\* &text[lo..hi] for lo, hi on character boundaries: the scalar values
\* whose byte offset lies in lo..hi-1, in order
ByteSlice(t, lo, hi) ==
    LET off == [k \in 1..Len(t) |-> ByteOffset(t, k)]
        marked == [k \in 1..Len(t) |->
                      IF off[k] >= lo /\ off[k] < hi THEN t[k] ELSE -1]
    IN  SelectSeq(marked, LAMBDA c : c >= 0)

(***************************************************************************)
(* Canonical composition (str::nfc) on the scalar values the model uses:   *)
(* U+0065 followed by U+0301 composes to U+00E9; the marker and the        *)
(* variation selectors are starters that neither decompose nor compose,    *)
(* so they pass through unchanged and block composition across them.       *)
(***************************************************************************)
LATIN_E == 101          \* U+0065
COMBINING_ACUTE == 769  \* U+0301
LATIN_E_ACUTE == 233    \* U+00E9

\* U+0301 right after U+0065 is absorbed, and that U+0065 becomes U+00E9
Nfc(t) ==
    LET composed == [k \in 1..Len(t) |->
                        IF k > 1 /\ t[k] = COMBINING_ACUTE /\ t[k - 1] = LATIN_E
                        THEN -1
                        ELSE IF k < Len(t) /\ t[k] = LATIN_E /\ t[k + 1] = COMBINING_ACUTE
                             THEN LATIN_E_ACUTE
                             ELSE t[k]]
    IN  SelectSeq(composed, LAMBDA c : c >= 0)

(***************************************************************************)
(* encode_wrapper and embed_manifest.                                      *)
(***************************************************************************)
\* `manifest_bytes.len() as u32` is the identity below 2^32, which is beyond
\* every length a sequence of the model can have.
\* the four big-endian bytes of len, most significant first
BeBytes(len) ==
    <<(len \div 16777216) % 256, (len \div 65536) % 256, (len \div 256) % 256, len % 256>>

LeBytes(len) ==
    <<len % 256, (len \div 256) % 256, (len \div 65536) % 256, (len \div 16777216) % 256>>

EncodeBytes(bs) == [k \in 1..Len(bs) |-> byte_to_vs(bs[k])]

encode_wrapper_little_endian(manifest_bytes) ==
    LET len == Len(manifest_bytes)
    IN  <<ZWNBSP>> \o EncodeBytes(MAGIC) \o EncodeBytes(<<VERSION>>)
            \o EncodeBytes(LeBytes(len)) \o EncodeBytes(manifest_bytes)

encode_wrapper(manifest_bytes) ==
    LET len == Len(manifest_bytes)
    IN  <<ZWNBSP>> \o EncodeBytes(MAGIC) \o EncodeBytes(<<VERSION>>)
            \o EncodeBytes(BeBytes(len)) \o EncodeBytes(manifest_bytes)

embed_manifest(t, manifest_bytes) == Nfc(t) \o encode_wrapper(manifest_bytes)

(***************************************************************************)
(* extract_manifest.                                                       *)
(***************************************************************************)
\* the inner while loop: the first index from j on whose scalar value does
\* not decode (Len(t) + 1 when the run reaches the end of the text)
RECURSIVE RunEnd(_, _)
RunEnd(t, j) ==
    IF j <= Len(t) /\ vs_to_byte(t[j]).some THEN RunEnd(t, j + 1) ELSE j

\* current_bytes for the marker at index i whose run ends before index j
CurrentBytes(t, i, j) == [k \in 1..(j - i - 1) |-> vs_to_byte(t[i + k]).val]

from_be_bytes(b) == ((b[1] * 256 + b[2]) * 256 + b[3]) * 256 + b[4]

DeclaredLen(cur) == from_be_bytes(SubSeq(cur, 10, 13))

\* the nested header checks of lines 156-169
HeaderChecks(cur) ==
    /\ Len(cur) >= HEADER_SIZE
    /\ SubSeq(cur, 1, 8) = MAGIC
    /\ cur[9] = VERSION
    /\ Len(cur) >= HEADER_SIZE + DeclaredLen(cur)

StartOffsetCharIndex(t, i) == i - 1

\* start_idx: chars[i].0, the byte offset of the marker
StartOffset(t, i) == ByteOffset(t, i)

WrapperEndInclusive(t, j) == ByteOffset(t, j - 1)

\* wrapper_end: chars[j].0, or text.len() when the run reaches the end
WrapperEnd(t, j) == IF j <= Len(t) THEN ByteOffset(t, j) ELSE ByteLen(t)

ErrMultipleWrappers == [ok |-> FALSE, err |-> "MultipleWrappers"]

\* the tail of extract_manifest, lines 196-213
Finish(t, ws, we, decoded) ==
    IF ws.some /\ we.some
    THEN [ok |-> TRUE,
          manifest |-> Some(decoded),
          clean_text |-> Nfc(ByteSlice(t, 0, ws.val) \o ByteSlice(t, we.val, ByteLen(t))),
          offset |-> Some(ws.val),
          length |-> Some(we.val - ws.val)]
    ELSE [ok |-> TRUE,
          manifest |-> NoneBytes,
          clean_text |-> Nfc(t),
          offset |-> NoneNat,
          length |-> NoneNat]

AlreadyFoundIgnored(ws) == FALSE

\* wrapper_start.is_some(), line 171
AlreadyFound(ws) == ws.some

\* where the cursor stands after the iterations that find no marker and
\* only advance it by one, from index i on: the next marker at or after i,
\* or the end of the text
SkipTo(t, i) ==
    LET stops == {k \in i..Len(t) : t[k] = ZWNBSP}
    IN  IF stops = {} THEN Len(t) + 1
        ELSE CHOOSE k \in stops : \A m \in stops : k <= m

\* the outer while loop from index i with the locals wrapper_start,
\* wrapper_end and decoded_bytes: the locals when the loop ends, or the
\* early return of line 173
RECURSIVE Scan(_, _, _, _, _)
Scan(t, i, ws, we, decoded) ==
    IF i > Len(t) THEN [returned |-> FALSE, ws |-> ws, we |-> we, decoded |-> decoded]
    ELSE IF t[i] = ZWNBSP
         THEN LET j == RunEnd(t, i + 1)
                  cur == CurrentBytes(t, i, j)
              IN  IF HeaderChecks(cur)
                  THEN IF AlreadyFound(ws)
                       THEN [returned |-> TRUE]
                       ELSE Scan(t, j, Some(StartOffset(t, i)), Some(WrapperEnd(t, j)),
                                 SubSeq(cur, HEADER_SIZE + 1, HEADER_SIZE + DeclaredLen(cur)))
                  ELSE Scan(t, i + 1, ws, we, decoded)
         ELSE Scan(t, SkipTo(t, i + 1), ws, we, decoded)

extract_manifest(t) ==
    LET s == Scan(t, 1, NoneNat, NoneNat, <<>>)
    IN  IF s.returned THEN ErrMultipleWrappers ELSE Finish(t, s.ws, s.we, s.decoded)

(***************************************************************************)
(* validator.rs: ValidationResult.  An issue keeps its code and offset;    *)
(* the message and context strings are not modelled.                       *)
(***************************************************************************)
JUMBF_SUPERBOX_TYPE == <<106, 117, 109, 98>>      \* b"jumb"
JUMBF_DESC_TYPE == <<106, 117, 109, 100>>         \* b"jumd"
C2PA_MANIFEST_STORE_UUID ==
    <<99, 50, 112, 97, 0, 17, 0, 16, 128, 0, 0, 170, 0, 56, 155, 113>>

ValidationCodes ==
    {"Valid", "CorruptedWrapper", "MultipleWrappers", "InvalidMagic",
     "UnsupportedVersion", "LengthMismatch", "EmptyManifest", "InvalidJumbfHeader",
     "InvalidJumbfBoxSize", "MissingDescriptionBox", "InvalidC2paUuid", "TruncatedJumbf"}

New ==
    [valid |-> TRUE, issues |-> <<>>, manifest_bytes |-> NoneBytes,
     jumbf_bytes |-> NoneBytes, version |-> NoneNat, declared_length |-> NoneNat,
     actual_length |-> NoneNat]

add_issue_keeps_valid(r, code, offset) ==
    [r EXCEPT !.issues = Append(@, [code |-> code, offset |-> offset])]

add_issue(r, code, offset) ==
    [r EXCEPT !.issues = Append(@, [code |-> code, offset |-> offset]),
              !.valid = FALSE]

primary_code(r) == IF r.issues = <<>> THEN "Valid" ELSE r.issues[1].code

\* the merge of a nested check's issues, lines 323-326 and 410-413
Merge(r, nested) ==
    IF ~nested.valid
    THEN [r EXCEPT !.issues = @ \o nested.issues, !.valid = FALSE]
    ELSE r

(***************************************************************************)
(* validate_jumbf_structure.                                               *)
(***************************************************************************)
\* u64::from_be_bytes(..) as usize.  TLC's integers end at 2^31 - 1: a size
\* above that is clipped to it.  The code only compares the size with
\* buffer lengths, which are far smaller, so clipping changes no outcome.
u64_from_be_bytes(b) ==
    IF \E k \in 1..4 : b[k] # 0 THEN 2147483647
    ELSE IF b[5] >= 128 THEN 2147483647
    ELSE from_be_bytes(SubSeq(b, 5, 8))

BelowMinimumBoxSizeInclusive(box_size) == box_size <= 8

\* box_size < 8, line 214
BelowMinimumBoxSize(box_size) == box_size < 8

HeaderSizeAlways8(box_size) == 8

\* header_size of lines 189-224
HeaderSize(box_size) == IF box_size = 1 THEN 16 ELSE 8

\* the strict branch, lines 255-297
StrictChecks(result, jumbf_bytes, header_size) ==
    IF Len(jumbf_bytes) < header_size + 8
    THEN add_issue(result, "MissingDescriptionBox", Some(header_size))
    ELSE IF SubSeq(jumbf_bytes, header_size + 5, header_size + 8) # JUMBF_DESC_TYPE
    THEN add_issue(result, "MissingDescriptionBox", Some(header_size + 4))
    ELSE LET uuid_offset == header_size + 8
         IN  IF /\ Len(jumbf_bytes) >= uuid_offset + 16
                /\ SubSeq(jumbf_bytes, uuid_offset + 1, uuid_offset + 16)
                       # C2PA_MANIFEST_STORE_UUID
             THEN add_issue(result, "InvalidC2paUuid", Some(uuid_offset))
             ELSE result

validate_jumbf_structure(jumbf_bytes, strict) ==
    LET result == [New EXCEPT !.jumbf_bytes = Some(jumbf_bytes)]
    IN
    IF jumbf_bytes = <<>>
    THEN add_issue(result, "EmptyManifest", Some(0))
    ELSE IF Len(jumbf_bytes) < 8
    THEN add_issue(result, "InvalidJumbfHeader", Some(0))
    ELSE
    LET box_size == from_be_bytes(SubSeq(jumbf_bytes, 1, 4))
        box_type == SubSeq(jumbf_bytes, 5, 8)
    IN
    IF box_size = 1 /\ Len(jumbf_bytes) < 16
    THEN add_issue(result, "TruncatedJumbf", Some(0))
    ELSE IF box_size # 0 /\ box_size # 1 /\ BelowMinimumBoxSize(box_size)
    THEN add_issue(result, "InvalidJumbfBoxSize", Some(0))
    ELSE
    LET effective_size ==
            IF box_size = 0 THEN Len(jumbf_bytes)
            ELSE IF box_size = 1 THEN u64_from_be_bytes(SubSeq(jumbf_bytes, 9, 16))
            ELSE box_size
        header_size == HeaderSize(box_size)
    IN
    IF Len(jumbf_bytes) < effective_size
    THEN add_issue(result, "TruncatedJumbf", Some(0))
    ELSE IF box_type # JUMBF_SUPERBOX_TYPE
    THEN add_issue(result, "InvalidJumbfHeader", Some(4))
    ELSE IF strict
    THEN StrictChecks(result, jumbf_bytes, header_size)
    ELSE result

(***************************************************************************)
(* validate_manifest and validate_wrapper_bytes.                           *)
(***************************************************************************)
validate_manifest_never_strict(manifest_bytes, validate_jumbf, strict) ==
    LET result == [New EXCEPT !.manifest_bytes = Some(manifest_bytes)]
    IN  IF manifest_bytes = <<>>
        THEN add_issue(result, "EmptyManifest", NoneNat)
        ELSE LET r1 == [result EXCEPT !.actual_length = Some(Len(manifest_bytes))]
             IN  IF validate_jumbf
                 THEN Merge(r1, validate_jumbf_structure(manifest_bytes, FALSE))
                 ELSE r1

validate_manifest(manifest_bytes, validate_jumbf, strict) ==
    LET result == [New EXCEPT !.manifest_bytes = Some(manifest_bytes)]
    IN  IF manifest_bytes = <<>>
        THEN add_issue(result, "EmptyManifest", NoneNat)
        ELSE LET r1 == [result EXCEPT !.actual_length = Some(Len(manifest_bytes))]
             IN  IF validate_jumbf
                 THEN Merge(r1, validate_jumbf_structure(manifest_bytes, strict))
                 ELSE r1

ActualJumbfLengthWholeBuffer(wrapper_bytes) == Len(wrapper_bytes)

\* actual_jumbf_length, line 388
ActualJumbfLength(wrapper_bytes) == Len(wrapper_bytes) - HEADER_SIZE

validate_wrapper_bytes(wrapper_bytes) ==
    IF Len(wrapper_bytes) < HEADER_SIZE
    THEN add_issue(New, "CorruptedWrapper", Some(0))
    ELSE IF SubSeq(wrapper_bytes, 1, 8) # MAGIC
    THEN add_issue(New, "InvalidMagic", Some(0))
    ELSE
    LET version == wrapper_bytes[9]
        r1 == [New EXCEPT !.version = Some(version)]
    IN
    IF version # VERSION
    THEN add_issue(r1, "UnsupportedVersion", Some(8))
    ELSE
    LET declared_length == from_be_bytes(SubSeq(wrapper_bytes, 10, 13))
        actual_jumbf_length == ActualJumbfLength(wrapper_bytes)
        r2 == [r1 EXCEPT !.declared_length = Some(declared_length),
                         !.actual_length = Some(actual_jumbf_length)]
    IN
    IF declared_length # actual_jumbf_length
    THEN add_issue(r2, "LengthMismatch", Some(9))
    ELSE
    LET jumbf_bytes == SubSeq(wrapper_bytes, HEADER_SIZE + 1, Len(wrapper_bytes))
        r3 == [r2 EXCEPT !.jumbf_bytes = Some(jumbf_bytes),
                         !.manifest_bytes = Some(jumbf_bytes)]
    IN  Merge(r3, validate_jumbf_structure(jumbf_bytes, FALSE))

NoCall == [op |-> "none", validate_jumbf |-> FALSE, strict |-> FALSE]

ValidatorIdle ==
    /\ vpc = "idle" /\ buf = <<>> /\ call = NoCall /\ vres = New /\ added = <<>>

ScanIdle ==
    /\ spc = "idle" /\ si = 0 /\ sws = NoneNat /\ swe = NoneNat
    /\ sdec = <<>> /\ seen = {} /\ sres = [ok |-> FALSE]

BytesIdle ==
    /\ bpc = "idle" /\ origin = [kind |-> "none", val |-> 0]
    /\ curCp = NoneNat /\ curByte = NoneNat

CodecIdle ==
    /\ cpc = "idle" /\ text = <<>> /\ host = <<>> /\ payload = <<>>
    /\ embeds = 0 /\ res = [ok |-> FALSE] /\ res2 = [ok |-> FALSE]

InitBytes ==
    /\ \/ \E b \in Bytes :
             /\ origin = [kind |-> "byte", val |-> b]
             /\ curByte = Some(b) /\ curCp = NoneNat
       \/ \E c \in CodepointSamples :
             /\ origin = [kind |-> "cp", val |-> c]
             /\ curCp = Some(c) /\ curByte = NoneNat
    /\ bpc = "start"
    /\ CodecIdle
    /\ ValidatorIdle
    /\ ScanIdle

\* byte_to_vs applied to the byte in hand
ByteToVs ==
    /\ bpc \in {"start", "decoded"}
    /\ curByte.some
    /\ origin.kind = (IF bpc = "start" THEN "byte" ELSE "cp")
    /\ curCp' = Some(byte_to_vs(curByte.val))
    /\ bpc' = IF bpc = "start" THEN "encoded" ELSE "done"
    /\ UNCHANGED <<origin, curByte>>
    /\ UNCHANGED <<cvars, vvars, svars>>

\* vs_to_byte applied to the codepoint in hand
VsToByte ==
    /\ bpc \in {"start", "encoded"}
    /\ curCp.some
    /\ origin.kind = (IF bpc = "start" THEN "cp" ELSE "byte")
    /\ curByte' = vs_to_byte(curCp.val)
    /\ bpc' = IF bpc = "start" THEN "decoded" ELSE "done"
    /\ UNCHANGED <<origin, curCp>>
    /\ UNCHANGED <<cvars, vvars, svars>>

NextBytes == ByteToVs \/ VsToByte

SpecBytes == InitBytes /\ [][NextBytes]_vars

\* C3: decoding the encoding of a byte gives the byte back, the encoding
\* is 0xFE00+b for b in 0..15 and 0xE0100+b-16 for b in 16..255, a
\* codepoint outside both ranges (the marker included) decodes to None, and
\* encoding the decoding of a codepoint inside the ranges gives it back.
C3_Bijection ==
    /\ (origin.kind = "byte" /\ bpc \in {"encoded", "done"}) =>
           curCp = Some(IF origin.val <= 15 THEN 65024 + origin.val
                        ELSE 917760 + origin.val - 16)
    /\ (origin.kind = "byte" /\ bpc = "done") => curByte = Some(origin.val)
    /\ (origin.kind = "cp" /\ bpc \in {"decoded", "done"}) =>
           (curByte.some <=> InVsRange(origin.val))
    /\ (origin.kind = "cp" /\ bpc = "done") => curCp = Some(origin.val)

C3_Witness ==
    /\ origin = [kind |-> "byte", val |-> 16] /\ bpc = "done"
    /\ curCp = Some(917760) /\ curByte = Some(16)

(***************************************************************************)
(* Inputs of the embed / extract pipeline.  A text is the concatenation of *)
(* at most MaxSegs segments: a letter, a combining accent, a bare marker,  *)
(* one encoded byte, and marker-anchored headers that are well formed      *)
(* (declaring 0 or 1 payload bytes, none present) or carry a wrong magic   *)
(* or version.  Payloads have at most MaxPayloadLen bytes, all distinct.   *)
(***************************************************************************)
MaxSegs == 3
MaxHostSegs == 2
MaxPayloadLen == 2
MaxEmbeds == 2

Hdr(magic, version, len) == EncodeBytes(magic \o <<version>> \o BeBytes(len))

Segments ==
    { <<LATIN_E>>, <<COMBINING_ACUTE>>, <<ZWNBSP>>, <<byte_to_vs(200)>>,
      <<ZWNBSP>> \o Hdr(MAGIC, VERSION, 0),
      <<ZWNBSP>> \o Hdr(MAGIC, VERSION, 1),
      <<ZWNBSP>> \o Hdr(<<67, 50, 80, 65, 84, 88, 84, 1>>, VERSION, 0),
      <<ZWNBSP>> \o Hdr(MAGIC, 2, 0) }

RECURSIVE Texts(_)
Texts(n) ==
    IF n = 0 THEN {<<>>}
    ELSE LET P == Texts(n - 1) IN P \cup {p \o s : p \in P, s \in Segments}

Payloads == {[k \in 1..n |-> 200 + k] : n \in 0..MaxPayloadLen}

InitCodec(n) ==
    /\ text \in Texts(n)
    /\ cpc = "ready" /\ host = <<>> /\ payload = <<>> /\ embeds = 0
    /\ res = [ok |-> FALSE] /\ res2 = [ok |-> FALSE]
    /\ BytesIdle
    /\ ValidatorIdle
    /\ ScanIdle

\* text = embed_manifest(text, B)
Embed ==
    /\ cpc = "ready"
    /\ embeds < MaxEmbeds
    /\ \E B \in Payloads :
          /\ text' = embed_manifest(text, B)
          /\ host' = text
          /\ payload' = B
    /\ embeds' = embeds + 1
    /\ UNCHANGED <<cpc, res, res2>>
    /\ UNCHANGED <<bvars, vvars, svars>>

\* res = extract_manifest(text)
Extract ==
    /\ cpc = "ready"
    /\ res' = extract_manifest(text)
    /\ cpc' = "extracted"
    /\ UNCHANGED <<text, host, payload, embeds, res2>>
    /\ UNCHANGED <<bvars, vvars, svars>>

\* res2 = extract_manifest(res.clean_text), for a successful res
ExtractClean ==
    /\ cpc = "extracted"
    /\ res.ok
    /\ res2' = extract_manifest(res.clean_text)
    /\ cpc' = "reextracted"
    /\ UNCHANGED <<text, host, payload, embeds, res>>
    /\ UNCHANGED <<bvars, vvars, svars>>

NextExtract == Extract \/ ExtractClean
SpecExtract == InitCodec(MaxSegs) /\ [][NextExtract]_vars

NextEmbed == Embed \/ Extract \/ ExtractClean
SpecEmbed == InitCodec(MaxHostSegs) /\ [][NextEmbed]_vars

(***************************************************************************)
(* What the wrapper format says a recognised wrapper is, stated on the     *)
(* text itself: a marker followed by a maximal run of n >= 13 variation    *)
(* selectors whose first 13 bytes are the magic, the version and a         *)
(* big-endian length that is at most n - 13.                               *)
(***************************************************************************)
ByteAt(t, k) == IF t[k] <= 65039 THEN t[k] - 65024 ELSE t[k] - 917760 + 16

\* the number of variation selectors directly after index i: the distance
\* to the nearest later position that holds none (or lies past the end)
RunLength(t, i) ==
    LET stops == {k \in (i + 1)..(Len(t) + 1) : k = Len(t) + 1 \/ ~InVsRange(t[k])}
    IN  (CHOOSE k \in stops : \A m \in stops : k <= m) - i - 1

DeclaredAt(t, i) ==
    ByteAt(t, i + 10) * 16777216 + ByteAt(t, i + 11) * 65536
        + ByteAt(t, i + 12) * 256 + ByteAt(t, i + 13)

WrapperAt(t, i) ==
    /\ t[i] = 65279
    /\ LET n == RunLength(t, i)
       IN  /\ n >= 13
           /\ \A k \in 1..8 : ByteAt(t, i + k) = MAGIC[k]
           /\ ByteAt(t, i + 9) = 1
           /\ DeclaredAt(t, i) <= n - 13

Wrappers(t) == {i \in 1..Len(t) : WrapperAt(t, i)}

TheWrapper(t) == CHOOSE i \in Wrappers(t) : TRUE

Extracted == cpc \in {"extracted", "reextracted"}

\* C1: when the host text holds no recognised wrapper, extracting from
\* embed_manifest(host, payload) succeeds and yields exactly the payload,
\* present even when it is empty.
C1_RoundTrip ==
    (Extracted /\ embeds >= 1 /\ Wrappers(host) = {}) =>
        (res.ok /\ res.manifest = Some(payload))

C1_Witness ==
    /\ cpc = "extracted" /\ embeds = 1
    /\ host = <<ZWNBSP>> \o Hdr(MAGIC, VERSION, 1)
    /\ payload = <<201, 202>>
    /\ res.ok /\ res.manifest = Some(<<201, 202>>)

\* C2: extraction fails with MultipleWrappers exactly when the text holds
\* two or more recognised wrappers, which is always so after two embeds;
\* with fewer it succeeds.
C2_MultipleWrappers ==
    Extracted =>
        LET n == Cardinality(Wrappers(text))
        IN  /\ (res = ErrMultipleWrappers) <=> (n >= 2)
            /\ (n < 2) => res.ok
            /\ (embeds >= 2) => (res = ErrMultipleWrappers)

C2_Witness ==
    /\ cpc = "extracted" /\ embeds = 2 /\ payload = <<201>>
    /\ Cardinality(Wrappers(text)) = 2
    /\ res = ErrMultipleWrappers

\* C4: extracting again from the clean text of a successful extraction
\* succeeds and finds no manifest.
C4_CleanIdempotent ==
    (cpc = "reextracted") => (res2.ok /\ ~res2.manifest.some)

\* a wrapper was removed and a rejected marker is still in the clean text
C4_Witness ==
    /\ cpc = "reextracted"
    /\ res.manifest.some
    /\ \E k \in 1..Len(res.clean_text) :
          res.clean_text[k] = ZWNBSP /\ RunLength(res.clean_text, k) >= 13
    /\ res2.ok /\ ~res2.manifest.some

\* the result extract_manifest must give when the single recognised wrapper
\* at index i spans the marker and the n codepoints after it
SpanResult(t, i, n) ==
    [ok |-> TRUE,
     manifest |-> Some([k \in 1..DeclaredAt(t, i) |-> ByteAt(t, i + 13 + k)]),
     clean_text |-> Nfc(SubSeq(t, 1, i - 1) \o SubSeq(t, i + n + 1, Len(t))),
     offset |-> Some(ByteLen(SubSeq(t, 1, i - 1))),
     length |-> Some(ByteLen(SubSeq(t, i, i + n)))]

\* C5 as stated: the span ends after the declared number of payload
\* codepoints.
C5_SpanIsDeclaredLength ==
    (Extracted /\ Cardinality(Wrappers(text)) = 1) =>
        LET i == TheWrapper(text)
        IN  res = SpanResult(text, i, 13 + DeclaredAt(text, i))

\* C5 amended: with exactly one recognised wrapper the span runs from the
\* marker to the end of the maximal run of variation selectors after it;
\* offset and length are byte positions in the original text, clean_text
\* is the text without the span, normalised, and the manifest is the
\* declared number of bytes after the header.
C5_SpanIsWholeRun ==
    (Extracted /\ Cardinality(Wrappers(text)) = 1) =>
        LET i == TheWrapper(text)
        IN  res = SpanResult(text, i, RunLength(text, i))

\* a wrapper declaring no payload, after a two-byte character, followed by
\* one more variation selector
C5_Witness ==
    /\ cpc = "extracted"
    /\ text = <<COMBINING_ACUTE, ZWNBSP>> \o Hdr(MAGIC, VERSION, 0)
                  \o <<byte_to_vs(200)>>
    /\ res.ok /\ res.manifest = Some(<<>>)
    /\ res.offset = Some(2) /\ res.length = Some(53)
    /\ res.clean_text = <<COMBINING_ACUTE>>

(***************************************************************************)
(* Inputs of the validator.  A box buffer is a prefix of                   *)
(*   size field, type tag, [64-bit size], description box header, UUID,    *)
(*   up to MaxPad zero bytes                                               *)
(* and a wrapper buffer is a wrapper header (right or wrong in its magic,  *)
(* version or declared length) before a short box, or a prefix of one.     *)
(***************************************************************************)
MaxPad == 1
MaxIssues == 2

OTHER_TYPE == <<120, 120, 120, 120>>              \* b"xxxx"
OtherUuid == [C2PA_MANIFEST_STORE_UUID EXCEPT ![16] = 112]

Prefixes(b) == {SubSeq(b, 1, n) : n \in 0..Len(b)}

Pad == [k \in 1..MaxPad |-> 0]

Bodies ==
    {BeBytes(24) \o d[1] \o d[2] \o Pad :
        d \in {<<JUMBF_DESC_TYPE, C2PA_MANIFEST_STORE_UUID>>,
               <<JUMBF_DESC_TYPE, OtherUuid>>,
               <<OTHER_TYPE, C2PA_MANIFEST_STORE_UUID>>}}

Boxes ==
    {BeBytes(sz) \o ty \o body :
        sz \in {0, 1, 2, 7, 8, 9, 100}, ty \in {JUMBF_SUPERBOX_TYPE, OTHER_TYPE},
        body \in Bodies}
    \cup
    {BeBytes(1) \o ty \o <<0, 0, 0, 0>> \o BeBytes(ext) \o body :
        ext \in {8, 16, 41}, ty \in {JUMBF_SUPERBOX_TYPE, OTHER_TYPE}, body \in Bodies}

BoxBuffers == UNION {Prefixes(b) : b \in Boxes}

ShortBoxes ==
    {<<>>, BeBytes(8) \o JUMBF_SUPERBOX_TYPE, BeBytes(8) \o OTHER_TYPE,
     BeBytes(100) \o JUMBF_SUPERBOX_TYPE}

WrapperBuffers ==
    {m \o <<v>> \o BeBytes(Len(j) + d) \o j :
        m \in {MAGIC, <<67, 50, 80, 65, 84, 88, 84, 1>>}, v \in {VERSION, 2},
        d \in {0, 1}, j \in ShortBoxes}
    \cup Prefixes(MAGIC \o <<VERSION>> \o BeBytes(0))

InitValidator ==
    /\ \/ vpc = "start" /\ buf \in BoxBuffers \cup WrapperBuffers
       \/ vpc = "building" /\ buf = <<>>
    /\ call = NoCall /\ vres = New /\ added = <<>>
    /\ BytesIdle
    /\ CodecIdle
    /\ ScanIdle

\* vres = validate_jumbf_structure(buf, strict)
ValidateJumbfStructure ==
    /\ vpc = "start"
    /\ \E strict \in BOOLEAN :
          /\ vres' = validate_jumbf_structure(buf, strict)
          /\ call' = [op |-> "jumbf", validate_jumbf |-> FALSE, strict |-> strict]
    /\ vpc' = "done"
    /\ UNCHANGED <<buf, added>>
    /\ UNCHANGED <<bvars, cvars, svars>>

\* vres = validate_manifest(buf, validate_jumbf, strict)
ValidateManifest ==
    /\ vpc = "start"
    /\ \E validate_jumbf \in BOOLEAN, strict \in BOOLEAN :
          /\ vres' = validate_manifest(buf, validate_jumbf, strict)
          /\ call' = [op |-> "manifest", validate_jumbf |-> validate_jumbf,
                      strict |-> strict]
    /\ vpc' = "done"
    /\ UNCHANGED <<buf, added>>
    /\ UNCHANGED <<bvars, cvars, svars>>

\* vres = validate_wrapper_bytes(buf)
ValidateWrapperBytes ==
    /\ vpc = "start"
    /\ vres' = validate_wrapper_bytes(buf)
    /\ call' = [op |-> "wrapper", validate_jumbf |-> FALSE, strict |-> FALSE]
    /\ vpc' = "done"
    /\ UNCHANGED <<buf, added>>
    /\ UNCHANGED <<bvars, cvars, svars>>

\* vres.add_issue(code, ..) on a result the caller builds from new()
AddIssue ==
    /\ vpc = "building"
    /\ Len(vres.issues) < MaxIssues
    /\ \E code \in ValidationCodes \ {"Valid"}, offset \in {NoneNat, Some(0)} :
          /\ vres' = add_issue(vres, code, offset)
          /\ added' = Append(added, [code |-> code, offset |-> offset])
    /\ UNCHANGED <<vpc, buf, call>>
    /\ UNCHANGED <<bvars, cvars, svars>>

NextValidator ==
    ValidateJumbfStructure \/ ValidateManifest \/ ValidateWrapperBytes \/ AddIssue

SpecValidator == InitValidator /\ [][NextValidator]_vars

(***************************************************************************)
(* The outcome the checks are documented to have, read off the buffer.     *)
(***************************************************************************)
Codes(r) == [k \in 1..Len(r.issues) |-> r.issues[k].code]

OneIssue(code) == IF code = "Valid" THEN <<>> ELSE <<code>>

Field32(b, at) ==
    b[at + 1] * 16777216 + b[at + 2] * 65536 + b[at + 3] * 256 + b[at + 4]

\* the buffer is shorter than the 64-bit value in bytes 8..15
ShorterThanExtension(b) ==
    \/ \E k \in 9..13 : b[k] # 0
    \/ Len(b) < b[14] * 65536 + b[15] * 256 + b[16]

ShorterThanEffective(b) ==
    LET sz == Field32(b, 0)
    IN  IF sz = 0 THEN FALSE
        ELSE IF sz = 1 THEN ShorterThanExtension(b)
        ELSE Len(b) < sz

ExpectedJumbf(b) ==
    IF Len(b) = 0 THEN "EmptyManifest"
    ELSE IF Len(b) < 8 THEN "InvalidJumbfHeader"
    ELSE IF Field32(b, 0) = 1 /\ Len(b) < 16 THEN "TruncatedJumbf"
    ELSE IF Field32(b, 0) \in 2..7 THEN "InvalidJumbfBoxSize"
    ELSE IF ShorterThanEffective(b) THEN "TruncatedJumbf"
    ELSE IF <<b[5], b[6], b[7], b[8]>> # <<106, 117, 109, 98>> THEN "InvalidJumbfHeader"
    ELSE "Valid"

ExpectedStrict(b) ==
    LET hs == IF Field32(b, 0) = 1 THEN 16 ELSE 8
    IN  IF Len(b) - hs < 8 THEN "MissingDescriptionBox"
        ELSE IF <<b[hs + 5], b[hs + 6], b[hs + 7], b[hs + 8]>> # <<106, 117, 109, 100>>
        THEN "MissingDescriptionBox"
        ELSE IF /\ Len(b) - (hs + 8) >= 16
                /\ \E k \in 1..16 : b[hs + 8 + k] # C2PA_MANIFEST_STORE_UUID[k]
        THEN "InvalidC2paUuid"
        ELSE "Valid"

ExpectedWrapperHeader(b) ==
    IF Len(b) < 13 THEN "CorruptedWrapper"
    ELSE IF \E k \in 1..8 : b[k] # MAGIC[k] THEN "InvalidMagic"
    ELSE IF b[9] # 1 THEN "UnsupportedVersion"
    ELSE IF Field32(b, 9) # Len(b) - 13 THEN "LengthMismatch"
    ELSE "Valid"

Returned(op) == vpc = "done" /\ call.op = op

\* C6: non-strict validate_jumbf_structure reports only the first failing
\* check, in the order empty, shorter than 8, extended size without 16
\* bytes, size in 2..7, shorter than the effective length, wrong type tag;
\* it is valid with no issue otherwise.
C6_NonStrictOrder ==
    (Returned("jumbf") /\ ~call.strict) =>
        /\ Codes(vres) = OneIssue(ExpectedJumbf(buf))
        /\ vres.valid <=> (ExpectedJumbf(buf) = "Valid")
        /\ (buf = <<0, 0, 0, 8, 106, 117, 109, 98>>) => vres.valid
        /\ (buf = <<0, 0, 0, 8, 120, 120, 120, 120>>) =>
               Codes(vres) = <<"InvalidJumbfHeader">>
        /\ (buf = <<0, 0, 0, 100, 106, 117, 109, 98>>) =>
               Codes(vres) = <<"TruncatedJumbf">>
        /\ (buf = <<0, 0, 0, 1, 106, 117, 109, 98, 0, 0, 0, 0, 0, 0, 0, 16>>) =>
               vres.valid

C6_Witness ==
    /\ Returned("jumbf") /\ ~call.strict
    /\ buf = <<0, 0, 0, 1, 106, 117, 109, 98, 0, 0, 0, 0, 0, 0, 0, 16>>
    /\ vres.valid /\ vres.issues = <<>>

\* C7: validate_wrapper_bytes stops at the first failing header check, in
\* the order length, magic, version, declared length, with that one issue;
\* when all four pass its issues are those of the non-strict box check of
\* the bytes after the header.
C7_WrapperOrder ==
    Returned("wrapper") =>
        IF ExpectedWrapperHeader(buf) # "Valid"
        THEN Codes(vres) = <<ExpectedWrapperHeader(buf)>> /\ ~vres.valid
        ELSE vres.issues =
                 validate_jumbf_structure(SubSeq(buf, 14, Len(buf)), FALSE).issues

C7_Witness ==
    /\ Returned("wrapper")
    /\ buf = MAGIC \o <<1, 0, 0, 0, 9>> \o <<0, 0, 0, 8, 106, 117, 109, 98>>
    /\ Codes(vres) = <<"LengthMismatch">>

\* C8: a ValidationResult is valid exactly when it has no issue, its
\* issues are in the order they were added, and primary_code is the code
\* of the first issue added, or Valid when there is none.
C8_ResultInvariant ==
    /\ vres.valid <=> (vres.issues = <<>>)
    /\ (primary_code(vres) = "Valid") <=> vres.valid
    /\ (vpc = "building") =>
           /\ vres.issues = added
           /\ primary_code(vres) = IF added = <<>> THEN "Valid" ELSE added[1].code
    /\ (vpc = "done" /\ vres.issues # <<>>) => primary_code(vres) = Codes(vres)[1]

C8_Witness ==
    /\ vpc = "building"
    /\ Codes(vres) = <<"TruncatedJumbf", "EmptyManifest">>
    /\ ~vres.valid /\ primary_code(vres) = "TruncatedJumbf"

\* C9: validate_manifest gives exactly EmptyManifest for an empty payload
\* whatever the flags; for a non-empty payload it gives the issues of
\* validate_jumbf_structure(payload, strict) when validate_jumbf is set and
\* none when it is not.
C9_ValidateManifest ==
    Returned("manifest") =>
        IF buf = <<>>
        THEN Codes(vres) = <<"EmptyManifest">> /\ ~vres.valid
        ELSE IF call.validate_jumbf
        THEN vres.issues = validate_jumbf_structure(buf, call.strict).issues
        ELSE vres.issues = <<>> /\ vres.valid

C9_Witness ==
    /\ Returned("manifest") /\ call.validate_jumbf /\ call.strict
    /\ buf = <<0, 0, 0, 8, 106, 117, 109, 98>>
    /\ Codes(vres) = <<"MissingDescriptionBox">>

\* C10: when the superbox checks pass, strict validate_jumbf_structure
\* reports MissingDescriptionBox for fewer than 8 bytes after the header or
\* an inner type other than jumd, InvalidC2paUuid exactly when 16 bytes
\* follow the description header and differ from the C2PA UUID, and is
\* valid otherwise; no call returns more than one issue.
C10_StrictChecks ==
    Returned("jumbf") =>
        /\ Len(vres.issues) <= 1
        /\ (call.strict /\ ExpectedJumbf(buf) = "Valid") =>
               Codes(vres) = OneIssue(ExpectedStrict(buf))

C10_Witness ==
    /\ Returned("jumbf") /\ call.strict
    /\ Len(buf) = 40 /\ Field32(buf, 0) = 1
    /\ Codes(vres) = <<"InvalidC2paUuid">>

\* the effective length of the box in b (its 64-bit size when the size
\* field is 1) is at least the length of the box's header
EffectiveCoversHeader(b) ==
    LET sz == Field32(b, 0)
    IN  IF sz = 0 THEN Len(b) >= 8
        ELSE IF sz = 1
             THEN \/ \E k \in 9..13 : b[k] # 0
                  \/ b[14] * 65536 + b[15] * 256 + b[16] >= 16
             ELSE sz >= 8

\* C12: a box that validate_jumbf_structure reports valid has an effective
\* length of at least its header length, 8 bytes or 16 in the extended
\* form; an extended size below 16 is never reported valid.
C12_EffectiveCoversHeader ==
    (Returned("jumbf") /\ vres.valid) => EffectiveCoversHeader(buf)

(***************************************************************************)
(* extract_manifest one loop iteration at a time.  si is the cursor i      *)
(* (1-based), sws, swe and sdec are wrapper_start, wrapper_end and         *)
(* decoded_bytes, sres is the value returned; seen records the indices at  *)
(* which the loop has recognised a wrapper.                                *)
(***************************************************************************)
MaxScanSegs == 3

ResumeAfterRejectPastRun(i, j) == j

\* i += 1 after a marker that is not a wrapper, line 193
ResumeAfterReject(i, j) == i + 1

InitScan ==
    /\ text \in Texts(MaxScanSegs)
    /\ cpc = "idle" /\ host = <<>> /\ payload = <<>> /\ embeds = 0
    /\ res = [ok |-> FALSE] /\ res2 = [ok |-> FALSE]
    /\ spc = "scanning" /\ si = 1 /\ sws = NoneNat /\ swe = NoneNat
    /\ sdec = <<>> /\ seen = {} /\ sres = [ok |-> FALSE]
    /\ BytesIdle
    /\ ValidatorIdle

AtMarker == spc = "scanning" /\ si <= Len(text) /\ text[si] = ZWNBSP

\* the conditions under which each branch of an iteration is taken
SkipGuard == spc = "scanning" /\ si <= Len(text) /\ text[si] # ZWNBSP
RejectGuard ==
    AtMarker /\ ~HeaderChecks(CurrentBytes(text, si, RunEnd(text, si + 1)))
RecognizeGuard ==
    /\ AtMarker /\ HeaderChecks(CurrentBytes(text, si, RunEnd(text, si + 1)))
    /\ ~AlreadyFound(sws)
SecondGuard ==
    /\ AtMarker /\ HeaderChecks(CurrentBytes(text, si, RunEnd(text, si + 1)))
    /\ AlreadyFound(sws)
FinishGuard == spc = "scanning" /\ si > Len(text)

\* an iteration at a codepoint that is not the marker, lines 138-139, 193
ScanSkip ==
    /\ SkipGuard
    /\ si' = si + 1
    /\ UNCHANGED <<spc, sws, swe, sdec, seen, sres>>
    /\ UNCHANGED <<bvars, cvars, vvars>>

\* an iteration at a marker whose run fails a header check, lines 139-169, 193
ScanReject ==
    /\ RejectGuard
    /\ si' = ResumeAfterReject(si, RunEnd(text, si + 1))
    /\ UNCHANGED <<spc, sws, swe, sdec, seen, sres>>
    /\ UNCHANGED <<bvars, cvars, vvars>>

\* an iteration that records the first wrapper, lines 170-187
ScanRecognize ==
    /\ RecognizeGuard
    /\ LET j == RunEnd(text, si + 1)
           cur == CurrentBytes(text, si, j)
       IN  /\ sws' = Some(StartOffset(text, si))
           /\ swe' = Some(WrapperEnd(text, j))
           /\ sdec' = SubSeq(cur, HEADER_SIZE + 1, HEADER_SIZE + DeclaredLen(cur))
           /\ si' = j
    /\ seen' = seen \cup {si}
    /\ UNCHANGED <<spc, sres>>
    /\ UNCHANGED <<bvars, cvars, vvars>>

\* an iteration that finds a second wrapper, lines 171-173
ScanSecond ==
    /\ SecondGuard
    /\ sres' = ErrMultipleWrappers
    /\ spc' = "error"
    /\ UNCHANGED <<si, sws, swe, sdec, seen>>
    /\ UNCHANGED <<bvars, cvars, vvars>>

\* the loop condition fails and the result is built, lines 137, 196-213
ScanFinish ==
    /\ FinishGuard
    /\ sres' = Finish(text, sws, swe, sdec)
    /\ spc' = "done"
    /\ UNCHANGED <<si, sws, swe, sdec, seen>>
    /\ UNCHANGED <<bvars, cvars, vvars>>

NextScan == ScanSkip \/ ScanReject \/ ScanRecognize \/ ScanSecond \/ ScanFinish

SpecScan == InitScan /\ [][NextScan]_vars

\* one iteration moves the cursor forward; from a marker that is no wrapper
\* it moves by exactly one, from a wrapper it moves past the whole run
CursorRule ==
    (spc = "scanning" /\ si <= Len(text)) =>
        /\ (spc' = "scanning") => si' > si
        /\ (text[si] = 65279 /\ ~WrapperAt(text, si)) =>
               (spc' = "scanning" /\ si' = si + 1)
        /\ (WrapperAt(text, si) /\ spc' = "scanning") =>
               si' = si + RunLength(text, si) + 1

\* every wrapper that starts before the cursor has been recognised, and the
\* value returned is that of extract_manifest
NoWrapperSkipped ==
    /\ seen = {i \in Wrappers(text) : i < si}
    /\ (spc \in {"done", "error"}) => sres = extract_manifest(text)

\* the loop is never stuck: while it has not returned, one branch of an
\* iteration (or the exit) can be taken, and the cursor, which every
\* iteration increases, never passes Len(text) + 1
Terminates ==
    /\ si <= Len(text) + 1
    /\ (spc = "scanning") =>
           (SkipGuard \/ RejectGuard \/ RecognizeGuard \/ SecondGuard \/ FinishGuard)

\* C11: after a marker that is not recognised the cursor moves to i+1, after
\* a recognised wrapper to the first codepoint past its run; the cursor
\* strictly increases and is bounded, so the scan terminates, and no
\* wrapper at a later marker is missed because an earlier marker was
\* rejected.
C11_ScanCursor ==
    /\ [][CursorRule]_vars
    /\ [](spc # "idle" => (NoWrapperSkipped /\ Terminates))

\* the cursor stands one past a rejected marker, inside that marker's run,
\* and a wrapper starts at a later marker
C11_Witness ==
    /\ spc = "scanning" /\ si = 2
    /\ text = <<ZWNBSP>> \o Hdr(MAGIC, VERSION, 1) \o <<ZWNBSP>> \o Hdr(MAGIC, VERSION, 0)
    /\ ~WrapperAt(text, 1) /\ InVsRange(text[2]) /\ WrapperAt(text, 15)
====
